---- MODULE Spec2Model ----
(***************************************************************************)
(* A model of the analysis engine of kmcsr/mcla:                           *)
(*   - Analyzer.DoLogStream: the streaming pipeline (select loop, scoring  *)
(*     tasks, WaitGroup, result channel, cancellation cause);              *)
(*   - Analyzer.UpdateErrors / updateErrorsLocked / getErrors: the cached  *)
(*     error-signature set behind a sync.RWMutex;                          *)
(*   - JsStorageCache.Get / GetOrSet: the persistent cache with in-flight  *)
(*     de-duplication;                                                     *)
(*   - logRecorder.Write / record / Close and Analyzer.newLogRecorder: the *)
(*     tee recorder feeding Analyzer.recentMixinLogs;                      *)
(*   - Analyzer.DoError: the scoring of one error against the signatures.  *)
(* Each part has its own next-state relation and specification; the        *)
(* variables of the other parts stay at their initial values.              *)
(***************************************************************************)
EXTENDS Integers, Sequences, FiniteSets, TLC

(* ---------------------------- bounds ----------------------------------- *)
\* top-level errors the tokenizer may deliver in one session
MaxTop == 2
\* errors in all cause chains of one session together
MaxResults == 4
\* capacity of the tokenizer's result channel
ResChCap == 1

\* goroutines calling getErrors / UpdateErrors on one Analyzer
NumCallers == 2
\* calls they make together
MaxCalls == 3
\* the clock runs from 1 to MaxTime
MaxTime == 4
\* goroutines calling GetOrSet for one key of one JsStorageCache
NumCacheCallers == 2
\* lines handed to record() in one run of the ring-buffer model
MaxObserve == 70
\* bytes written to one logRecorder, and the longest single Write
MaxStream == 5
MaxChunk == 3
\* analyze sessions on one Analyzer, and the lines each one writes
NumSessions == 2
MaxSessLines == 2
\* signatures in the set the repository enumerates
MaxSigs == 2

(* ------------------------ program constants ---------------------------- *)
\* make(chan *ErrorResult, 3)
ResultCap == 3
\* time.Hour, the freshness window, in ticks of the model's clock
Hour == 2
\* ringbuf.NewRingBuffer[string](64)
RingCap == 64

Nil == "nil"
TokErr == "TokenizeFailed"
Canceled == "context.Canceled"

VARIABLES
    \* --- tokenizer (ScanJavaErrorsIntoChan) ---
    tokState,        \* "run" | "ended" (nil sentinel delivered) | "failed"
    tokChain,        \* tokChain[k]: cause-chain length of the k-th delivered error
    resCh,           \* tokenizer result channel: error indices, 0 is the nil sentinel
    errCh,           \* tokenizer error channel: at most one terminal error
    \* --- DoLogStream goroutine ---
    mainPc,          \* "select" | "wait" | "defer" | "done"
    exitVia,         \* how the select loop was left
    spawned,         \* number of scoring tasks started
    wg,              \* sync.WaitGroup counter
    ctxCause,        \* context.Cause(ctx); Nil while ctx is not done
    callerCancelled, \* the caller-supplied context c was cancelled
    \* --- scoring tasks ---
    taskPc,          \* "none" | "walk" | "done" | "panic"
    taskPos,         \* position of jerr in its cause chain (1 = outermost)
    \* --- result channel ---
    result,          \* buffered content, <<top, pos>> per ErrorResult
    resultClosed,
    closeCount,
    sent,            \* every ErrorResult ever placed on result, in order
    received,        \* what the consumer has taken off result, in order
    panicked,        \* a goroutine panicked: the process is gone
    \* --- Analyzer: cached signature set ---
    now,             \* time.Now()
    lastUpdateErr,   \* a.lastUpdateErr; 0 is the zero time
    cachedErrors,    \* a.cachedErrors
    errWriter,       \* a.errMux: the goroutine holding Lock(), 0 if none
    errReaders,      \* a.errMux: the goroutines holding RLock()
    pcS,             \* position of each caller
    opS,             \* the call each caller is in or has last made
    callsS,          \* getErrors / UpdateErrors calls made so far
    needUpdate,      \* local needUpdate of getErrors
    fetched,         \* local errors of updateErrorsLocked
    errS,            \* local err of updateErrorsLocked
    outcomeS,        \* what DB.ForEachErrors returned to the caller's last call
    retS,            \* what the caller's last call returned
    enumCount,       \* invocations of DB.ForEachErrors so far
    myGen,           \* the invocation number of the caller's enumeration
    timeGen,         \* the enumeration that lastUpdateErr was recorded for
    cacheGen,        \* the enumeration that cachedErrors came from
    group,           \* the getErrors callers waiting on a stale cache together
    groupFetches,    \* enumerations invoked by the callers of group
    \* --- JsStorageCache, one key ---
    storage,         \* the stored item of the key, "" if there is none
    working,         \* s.working[key]: the channel of its creator, 0 if absent
    chClosed,        \* the done channels that have been closed
    pcC,             \* position of each GetOrSet caller
    inRetry,         \* the caller is in the Get of "return s.Get(key)"
    chC,             \* local ch of Get
    vC,              \* local v of GetOrSet
    retC,            \* what GetOrSet returned
    setterCalls,     \* invocations of setter so far
    \* --- logRecorder and Analyzer.recentMixinLogs ---
    recentMixinLogs, \* the ring buffer's content, oldest first
    recState,        \* per session: "none" | "open" | "closed" (r.closed)
    recBuf,          \* per session: r.buf
    written,         \* per session: all bytes passed to Write, concatenated
    observed,        \* per session: the lines passed to record(), in order
    writeRet,        \* what the last Write returned
    pushed,          \* payloads of the matching lines since newLogRecorder
    obsCount,        \* record() calls made in the ring-buffer model
    \* --- Analyzer.DoError ---
    scCalled,        \* DoError has been called
    scJerr,          \* jerr.Class of the last call
    scHard,          \* what HardCodedChecks returned to the last call
    scOv,            \* what lineMatchPercent returned to the last call, 0 if not called
    scMatched        \* what the last call returned

streamVars == <<tokState, tokChain, resCh, errCh, mainPc, exitVia, spawned, wg,
                ctxCause, callerCancelled, taskPc, taskPos, result, resultClosed,
                closeCount, sent, received, panicked>>

storeVars == <<now, lastUpdateErr, cachedErrors, errWriter, errReaders, pcS,
               opS, callsS, needUpdate, fetched, errS, outcomeS, retS,
               enumCount, myGen, timeGen, cacheGen, group, groupFetches>>

cacheVars == <<storage, working, chClosed, pcC, inRetry, chC, vC, retC,
               setterCalls>>

recVars == <<recentMixinLogs, recState, recBuf, written, observed, writeRet,
             pushed, obsCount>>

scoreVars == <<scCalled, scJerr, scHard, scOv, scMatched>>

Tasks == 1..MaxTop
Callers == 1..NumCallers
CacheCallers == 1..NumCacheCallers

FetchErr == "FetchFailed"
\* a nil slice, and the signature sets the repository may enumerate
NilSet == [isNil |-> TRUE, sigs |-> <<>>]
Loaded(sigs) == [isNil |-> FALSE, sigs |-> sigs]
DBSets == {<<>>, <<"sigA">>}
NoRet == [val |-> NilSet, err |-> Nil]

InitStore ==
    /\ now = 1
    /\ lastUpdateErr = 0
    /\ cachedErrors = NilSet
    /\ errWriter = 0
    /\ errReaders = {}
    /\ pcS = [p \in Callers |-> "idle"]
    /\ opS = [p \in Callers |-> "none"]
    /\ callsS = 0
    /\ needUpdate = [p \in Callers |-> FALSE]
    /\ fetched = [p \in Callers |-> NilSet]
    /\ errS = [p \in Callers |-> Nil]
    /\ outcomeS = [p \in Callers |-> "none"]
    /\ retS = [p \in Callers |-> NoRet]
    /\ enumCount = 0
    /\ myGen = [p \in Callers |-> 0]
    /\ timeGen = 0
    /\ cacheGen = 0
    /\ group = {}
    /\ groupFetches = 0

otherThanStream == <<storeVars, cacheVars, recVars, scoreVars>>

InitStream ==
    /\ tokState = "run"
    /\ tokChain = <<>>
    /\ resCh = <<>>
    /\ errCh = <<>>
    /\ mainPc = "select"
    /\ exitVia = "none"
    /\ spawned = 0
    /\ wg = 0
    /\ ctxCause = Nil
    /\ callerCancelled = FALSE
    /\ taskPc = [t \in Tasks |-> "none"]
    /\ taskPos = [t \in Tasks |-> 0]
    /\ result = <<>>
    /\ resultClosed = FALSE
    /\ closeCount = 0
    /\ sent = <<>>
    /\ received = <<>>
    /\ panicked = FALSE

(* --------------------------- helpers ----------------------------------- *)
\* context.CancelCauseFunc: the first cause wins, later calls are no-ops
CancelCause(cur, err) == IF cur = Nil THEN err ELSE cur

\* cancel(err) of the errCh case dropped
ErrChCancelDropped(cur, err) == cur
\* case err := <-errCh: cancel(err)
ErrChCancel(cur, err) == CancelCause(cur, err)

\* the cause-chain walk skipping one element
NextCauseSkip(pos) == pos + 2
\* jerr = jerr.CausedBy
NextCause(pos) == pos + 1

\* a task returning without wg.Done()
WgDoneMissing(n) == n
\* defer wg.Done()
WgDone(n) == n - 1

\* DoError never assigns its err result: it is always nil
DoErrorErr == Nil

(* --------------------------- tokenizer --------------------------------- *)
\* the number of errors in the cause chains delivered so far
RECURSIVE ChainTotal(_)
ChainTotal(chains) ==
    IF chains = <<>> THEN 0 ELSE Head(chains) + ChainTotal(Tail(chains))

\* the tokenizer delivers one more top-level error with a chain of n errors
TokEmit(n) ==
    /\ ~panicked
    /\ tokState = "run"
    /\ Len(tokChain) < MaxTop
    /\ ChainTotal(tokChain) + n <= MaxResults
    /\ Len(resCh) < ResChCap
    /\ tokChain' = Append(tokChain, n)
    /\ resCh' = Append(resCh, Len(tokChain) + 1)
    /\ UNCHANGED otherThanStream
    /\ UNCHANGED <<tokState, errCh, mainPc, exitVia, spawned, wg, ctxCause,
                   callerCancelled, taskPc, taskPos, result, resultClosed,
                   closeCount, sent, received, panicked>>

\* clean end of stream: the nil sentinel
TokEnd ==
    /\ ~panicked
    /\ tokState = "run"
    /\ Len(resCh) < ResChCap
    /\ tokState' = "ended"
    /\ resCh' = Append(resCh, 0)
    /\ UNCHANGED otherThanStream
    /\ UNCHANGED <<tokChain, errCh, mainPc, exitVia, spawned, wg, ctxCause,
                   callerCancelled, taskPc, taskPos, result, resultClosed,
                   closeCount, sent, received, panicked>>

\* terminal tokenizer error
TokFail ==
    /\ ~panicked
    /\ tokState = "run"
    /\ tokState' = "failed"
    /\ errCh' = Append(errCh, TokErr)
    /\ UNCHANGED otherThanStream
    /\ UNCHANGED <<tokChain, resCh, mainPc, exitVia, spawned, wg, ctxCause,
                   callerCancelled, taskPc, taskPos, result, resultClosed,
                   closeCount, sent, received, panicked>>

(* ------------------------ DoLogStream goroutine ------------------------ *)
\* case jerr := <-resCh, jerr != nil: wg.Add(1); go func() {...}
MainSpawn ==
    /\ ~panicked
    /\ mainPc = "select"
    /\ resCh # <<>>
    /\ Head(resCh) # 0
    /\ resCh' = Tail(resCh)
    /\ spawned' = spawned + 1
    /\ wg' = wg + 1
    /\ taskPc' = [taskPc EXCEPT ![Head(resCh)] = "walk"]
    /\ taskPos' = [taskPos EXCEPT ![Head(resCh)] = 1]
    /\ UNCHANGED otherThanStream
    /\ UNCHANGED <<tokState, tokChain, errCh, mainPc, exitVia, ctxCause,
                   callerCancelled, result, resultClosed, closeCount, sent,
                   received, panicked>>

\* the sentinel leaving the loop straight into the deferred close
MainBreakNoWait ==
    /\ ~panicked
    /\ mainPc = "select"
    /\ resCh # <<>>
    /\ Head(resCh) = 0
    /\ resCh' = Tail(resCh)
    /\ mainPc' = "defer"
    /\ exitVia' = "sentinel"
    /\ UNCHANGED otherThanStream
    /\ UNCHANGED <<tokState, tokChain, errCh, spawned, wg, ctxCause,
                   callerCancelled, taskPc, taskPos, result, resultClosed,
                   closeCount, sent, received, panicked>>

\* case jerr := <-resCh, jerr == nil: break LOOP (on to wg.Wait())
MainBreak ==
    /\ ~panicked
    /\ mainPc = "select"
    /\ resCh # <<>>
    /\ Head(resCh) = 0
    /\ resCh' = Tail(resCh)
    /\ mainPc' = "wait"
    /\ exitVia' = "sentinel"
    /\ UNCHANGED otherThanStream
    /\ UNCHANGED <<tokState, tokChain, errCh, spawned, wg, ctxCause,
                   callerCancelled, taskPc, taskPos, result, resultClosed,
                   closeCount, sent, received, panicked>>

\* case err := <-errCh: cancel(err); return
MainErrCh ==
    /\ ~panicked
    /\ mainPc = "select"
    /\ errCh # <<>>
    /\ errCh' = Tail(errCh)
    /\ ctxCause' = ErrChCancel(ctxCause, Head(errCh))
    /\ mainPc' = "defer"
    /\ exitVia' = "tokerr"
    /\ UNCHANGED otherThanStream
    /\ UNCHANGED <<tokState, tokChain, resCh, spawned, wg, callerCancelled,
                   taskPc, taskPos, result, resultClosed, closeCount, sent,
                   received, panicked>>

\* case <-ctx.Done(): return
MainCtxDone ==
    /\ ~panicked
    /\ mainPc = "select"
    /\ ctxCause # Nil
    /\ mainPc' = "defer"
    /\ exitVia' = "ctxdone"
    /\ UNCHANGED otherThanStream
    /\ UNCHANGED <<tokState, tokChain, resCh, errCh, spawned, wg, ctxCause,
                   callerCancelled, taskPc, taskPos, result, resultClosed,
                   closeCount, sent, received, panicked>>

\* wg.Wait()
MainWait ==
    /\ ~panicked
    /\ mainPc = "wait"
    /\ wg = 0
    /\ mainPc' = "defer"
    /\ UNCHANGED otherThanStream
    /\ UNCHANGED <<tokState, tokChain, resCh, errCh, exitVia, spawned, wg,
                   ctxCause, callerCancelled, taskPc, taskPos, result,
                   resultClosed, closeCount, sent, received, panicked>>

\* defer close(result)
MainClose ==
    /\ ~panicked
    /\ mainPc = "defer"
    /\ mainPc' = "done"
    /\ resultClosed' = TRUE
    /\ closeCount' = closeCount + 1
    /\ UNCHANGED otherThanStream
    /\ UNCHANGED <<tokState, tokChain, resCh, errCh, exitVia, spawned, wg,
                   ctxCause, callerCancelled, taskPc, taskPos, result, sent,
                   received, panicked>>

(* --------------------------- scoring task ------------------------------ *)
\* Every scoring-task action below is one pass of the loop body: res.Matched, err =
\* a.DoError(jerr) followed by the select. DoError never sets err, so the
\* branch cancel(err); return is not taken.
\* select { case result <- res: }; jerr = jerr.CausedBy; for jerr != nil
TaskSend(t) ==
    /\ ~panicked
    /\ taskPc[t] = "walk"
    /\ DoErrorErr = Nil
    /\ ~resultClosed
    /\ Len(result) < ResultCap
    /\ result' = Append(result, <<t, taskPos[t]>>)
    /\ sent' = Append(sent, <<t, taskPos[t]>>)
    /\ taskPos' = [taskPos EXCEPT ![t] = NextCause(taskPos[t])]
    /\ IF NextCause(taskPos[t]) > tokChain[t]
         THEN /\ taskPc' = [taskPc EXCEPT ![t] = "done"]
              /\ wg' = WgDone(wg)
         ELSE /\ taskPc' = [taskPc EXCEPT ![t] = "walk"]
              /\ wg' = wg
    /\ UNCHANGED otherThanStream
    /\ UNCHANGED <<tokState, tokChain, resCh, errCh, mainPc, exitVia, spawned,
                   ctxCause, callerCancelled, resultClosed, closeCount,
                   received, panicked>>

\* select { case result <- res: } chosen on a closed channel: panic
TaskSendClosed(t) ==
    /\ ~panicked
    /\ taskPc[t] = "walk"
    /\ DoErrorErr = Nil
    /\ resultClosed
    /\ taskPc' = [taskPc EXCEPT ![t] = "panic"]
    /\ panicked' = TRUE
    /\ UNCHANGED otherThanStream
    /\ UNCHANGED <<tokState, tokChain, resCh, errCh, mainPc, exitVia, spawned,
                   wg, ctxCause, callerCancelled, taskPos, result,
                   resultClosed, closeCount, sent, received>>

\* select { case <-ctx.Done(): return }
TaskCtxDone(t) ==
    /\ ~panicked
    /\ taskPc[t] = "walk"
    /\ DoErrorErr = Nil
    /\ ctxCause # Nil
    /\ taskPc' = [taskPc EXCEPT ![t] = "done"]
    /\ wg' = WgDone(wg)
    /\ UNCHANGED otherThanStream
    /\ UNCHANGED <<tokState, tokChain, resCh, errCh, mainPc, exitVia, spawned,
                   ctxCause, callerCancelled, taskPos, result, resultClosed,
                   closeCount, sent, received, panicked>>

(* ----------------------- consumer and caller --------------------------- *)
\* the consumer receives from the result channel (also after it is closed)
ConsumerRecv ==
    /\ ~panicked
    /\ result # <<>>
    /\ received' = Append(received, Head(result))
    /\ result' = Tail(result)
    /\ UNCHANGED otherThanStream
    /\ UNCHANGED <<tokState, tokChain, resCh, errCh, mainPc, exitVia, spawned,
                   wg, ctxCause, callerCancelled, taskPc, taskPos,
                   resultClosed, closeCount, sent, panicked>>

\* the caller cancels the context c handed to DoLogStream
CallerCancel ==
    /\ ~panicked
    /\ ~callerCancelled
    /\ callerCancelled' = TRUE
    /\ ctxCause' = CancelCause(ctxCause, Canceled)
    /\ UNCHANGED otherThanStream
    /\ UNCHANGED <<tokState, tokChain, resCh, errCh, mainPc, exitVia, spawned,
                   wg, taskPc, taskPos, result, resultClosed, closeCount,
                   sent, received, panicked>>

MainStep ==
    \/ MainSpawn
    \/ MainBreak
    \/ MainErrCh
    \/ MainCtxDone
    \/ MainWait
    \/ MainClose

TaskStep(t) ==
    \/ TaskSend(t)
    \/ TaskSendClosed(t)
    \/ TaskCtxDone(t)


(* =================== Analyzer: cached signature set ==================== *)
otherThanStore == <<streamVars, cacheVars, recVars, scoreVars>>

\* a set exactly one hour old taken for stale
NeedUpdateAtOneHour(last, t) == last = 0 \/ t >= last + Hour
\* a.lastUpdateErr.IsZero() || time.Now().After(a.lastUpdateErr.Add(time.Hour))
NeedUpdate(last, t) == last = 0 \/ t > last + Hour

\* the second check left out: refresh whenever the first check said so
RecheckSkipped(last, t) == TRUE
\* the check repeated under the exclusive lock
Recheck(last, t) == NeedUpdate(last, t)

\* the error of ForEachErrors ignored: falls through to the assignments
AfterEnumErrFallThrough(op) == "setTime"
\* if err = a.DB.ForEachErrors(...); err != nil { return }
AfterEnumErr(op) == IF op = "get" THEN "g_unlock" ELSE "u_unlock"

\* time passes while calls are running or still to come
Tick ==
    /\ now < MaxTime
    /\ callsS < MaxCalls \/ \E p \in Callers : pcS[p] # "idle"
    /\ now' = now + 1
    /\ UNCHANGED <<lastUpdateErr, cachedErrors, errWriter, errReaders, pcS,
                   opS, callsS, needUpdate, fetched, errS, outcomeS, retS,
                   enumCount, myGen, timeGen, cacheGen, group, groupFetches>>
    /\ UNCHANGED otherThanStore

\* getErrors: a.errMux.RLock()
GetRLock(p) ==
    /\ pcS[p] = "idle"
    /\ callsS < MaxCalls
    /\ errWriter = 0
    /\ errReaders' = errReaders \cup {p}
    /\ pcS' = [pcS EXCEPT ![p] = "g_check"]
    /\ opS' = [opS EXCEPT ![p] = "get"]
    /\ callsS' = callsS + 1
    /\ outcomeS' = [outcomeS EXCEPT ![p] = "none"]
    /\ errS' = [errS EXCEPT ![p] = Nil]
    /\ retS' = [retS EXCEPT ![p] = NoRet]
    /\ UNCHANGED <<now, lastUpdateErr, cachedErrors, errWriter, needUpdate,
                   fetched, enumCount, myGen, timeGen, cacheGen, group,
                   groupFetches>>
    /\ UNCHANGED otherThanStore

\* getErrors: needUpdate := ...; a.errMux.RUnlock()
GetCheck(p) ==
    /\ pcS[p] = "g_check"
    /\ needUpdate' = [needUpdate EXCEPT ![p] = NeedUpdate(lastUpdateErr, now)]
    /\ errReaders' = errReaders \ {p}
    /\ pcS' = [pcS EXCEPT ![p] =
                  IF NeedUpdate(lastUpdateErr, now) THEN "g_lock" ELSE "g_ret"]
    /\ UNCHANGED <<now, lastUpdateErr, cachedErrors, errWriter, opS, callsS,
                   fetched, errS, outcomeS, retS, enumCount, myGen, timeGen,
                   cacheGen, group, groupFetches>>
    /\ UNCHANGED otherThanStore

\* getErrors: if needUpdate { a.errMux.Lock()
GetLock(p) ==
    /\ pcS[p] = "g_lock"
    /\ errWriter = 0
    /\ errReaders = {}
    /\ errWriter' = p
    /\ pcS' = [pcS EXCEPT ![p] = "g_recheck"]
    /\ UNCHANGED <<now, lastUpdateErr, cachedErrors, errReaders, opS, callsS,
                   needUpdate, fetched, errS, outcomeS, retS, enumCount, myGen,
                   timeGen, cacheGen, group, groupFetches>>
    /\ UNCHANGED otherThanStore

\* the callers of getErrors that found the cache stale and have not yet
\* been through the exclusive section
StaleWaiters == {q \in Callers : pcS[q] \in {"g_lock", "g_recheck"}}

\* getErrors: if <stale> { a.updateErrorsLocked() }: ForEachErrors is invoked
GetRecheckStale(p) ==
    /\ pcS[p] = "g_recheck"
    /\ Recheck(lastUpdateErr, now)
    /\ pcS' = [pcS EXCEPT ![p] = "enum"]
    /\ enumCount' = enumCount + 1
    /\ myGen' = [myGen EXCEPT ![p] = enumCount + 1]
    /\ fetched' = [fetched EXCEPT ![p] = Loaded(<<>>)]
    /\ IF p \in group
         THEN /\ groupFetches' = groupFetches + 1
              /\ group' = group
         ELSE /\ groupFetches' = 1
              /\ group' = StaleWaiters
    /\ UNCHANGED <<now, lastUpdateErr, cachedErrors, errWriter, errReaders,
                   opS, callsS, needUpdate, errS, outcomeS, retS, timeGen,
                   cacheGen>>
    /\ UNCHANGED otherThanStore

\* getErrors: the repeated check finds the cache fresh
GetRecheckFresh(p) ==
    /\ pcS[p] = "g_recheck"
    /\ ~Recheck(lastUpdateErr, now)
    /\ pcS' = [pcS EXCEPT ![p] = "g_unlock"]
    /\ UNCHANGED <<now, lastUpdateErr, cachedErrors, errWriter, errReaders,
                   opS, callsS, needUpdate, fetched, errS, outcomeS, retS,
                   enumCount, myGen, timeGen, cacheGen, group, groupFetches>>
    /\ UNCHANGED otherThanStore

\* UpdateErrors: a.errMux.Lock(); a.updateErrorsLocked(): ForEachErrors is invoked
UpdateLock(p) ==
    /\ pcS[p] = "idle"
    /\ callsS < MaxCalls
    /\ errWriter = 0
    /\ errReaders = {}
    /\ errWriter' = p
    /\ pcS' = [pcS EXCEPT ![p] = "enum"]
    /\ opS' = [opS EXCEPT ![p] = "update"]
    /\ callsS' = callsS + 1
    /\ outcomeS' = [outcomeS EXCEPT ![p] = "none"]
    /\ errS' = [errS EXCEPT ![p] = Nil]
    /\ retS' = [retS EXCEPT ![p] = NoRet]
    /\ enumCount' = enumCount + 1
    /\ myGen' = [myGen EXCEPT ![p] = enumCount + 1]
    /\ fetched' = [fetched EXCEPT ![p] = Loaded(<<>>)]
    /\ UNCHANGED <<now, lastUpdateErr, cachedErrors, errReaders, needUpdate,
                   timeGen, cacheGen, group, groupFetches>>
    /\ UNCHANGED otherThanStore

\* updateErrorsLocked: DB.ForEachErrors returns nil, having visited sigs
EnumOk(p, sigs) ==
    /\ pcS[p] = "enum"
    /\ fetched' = [fetched EXCEPT ![p] = Loaded(sigs)]
    /\ outcomeS' = [outcomeS EXCEPT ![p] = "ok"]
    /\ pcS' = [pcS EXCEPT ![p] = "setTime"]
    /\ UNCHANGED <<now, lastUpdateErr, cachedErrors, errWriter, errReaders,
                   opS, callsS, needUpdate, errS, retS, enumCount, myGen,
                   timeGen, cacheGen, group, groupFetches>>
    /\ UNCHANGED otherThanStore

\* updateErrorsLocked: DB.ForEachErrors returns an error
EnumErr(p) ==
    /\ pcS[p] = "enum"
    /\ errS' = [errS EXCEPT ![p] = FetchErr]
    /\ outcomeS' = [outcomeS EXCEPT ![p] = "fail"]
    /\ pcS' = [pcS EXCEPT ![p] = AfterEnumErr(opS[p])]
    /\ UNCHANGED <<now, lastUpdateErr, cachedErrors, errWriter, errReaders,
                   opS, callsS, needUpdate, fetched, retS, enumCount, myGen,
                   timeGen, cacheGen, group, groupFetches>>
    /\ UNCHANGED otherThanStore

\* updateErrorsLocked: a.lastUpdateErr = time.Now()
SetTime(p) ==
    /\ pcS[p] = "setTime"
    /\ lastUpdateErr' = now
    /\ timeGen' = myGen[p]
    /\ pcS' = [pcS EXCEPT ![p] = "setCache"]
    /\ UNCHANGED <<now, cachedErrors, errWriter, errReaders, opS, callsS,
                   needUpdate, fetched, errS, outcomeS, retS, enumCount, myGen,
                   cacheGen, group, groupFetches>>
    /\ UNCHANGED otherThanStore

\* updateErrorsLocked: a.cachedErrors = errors
SetCache(p) ==
    /\ pcS[p] = "setCache"
    /\ cachedErrors' = fetched[p]
    /\ cacheGen' = myGen[p]
    /\ pcS' = [pcS EXCEPT ![p] = IF opS[p] = "get" THEN "g_unlock" ELSE "u_unlock"]
    /\ UNCHANGED <<now, lastUpdateErr, errWriter, errReaders, opS, callsS,
                   needUpdate, fetched, errS, outcomeS, retS, enumCount, myGen,
                   timeGen, group, groupFetches>>
    /\ UNCHANGED otherThanStore

\* getErrors: a.errMux.Unlock() (the error of updateErrorsLocked is dropped)
GetUnlock(p) ==
    /\ pcS[p] = "g_unlock"
    /\ errWriter' = 0
    /\ pcS' = [pcS EXCEPT ![p] = "g_ret"]
    /\ fetched' = [fetched EXCEPT ![p] = NilSet]
    /\ UNCHANGED <<now, lastUpdateErr, cachedErrors, errReaders, opS, callsS,
                   needUpdate, errS, outcomeS, retS, enumCount, myGen, timeGen,
                   cacheGen, group, groupFetches>>
    /\ UNCHANGED otherThanStore

\* getErrors: return a.cachedErrors (read without the lock; no error result)
GetReturn(p) ==
    /\ pcS[p] = "g_ret"
    /\ retS' = [retS EXCEPT ![p] = [val |-> cachedErrors, err |-> Nil]]
    /\ pcS' = [pcS EXCEPT ![p] = "idle"]
    /\ needUpdate' = [needUpdate EXCEPT ![p] = FALSE]
    /\ group' = group \ {p}
    /\ UNCHANGED <<now, lastUpdateErr, cachedErrors, errWriter, errReaders,
                   opS, callsS, fetched, errS, outcomeS, enumCount, myGen,
                   timeGen, cacheGen, groupFetches>>
    /\ UNCHANGED otherThanStore

\* UpdateErrors: defer a.errMux.Unlock(); return err
UpdateReturn(p) ==
    /\ pcS[p] = "u_unlock"
    /\ errWriter' = 0
    /\ retS' = [retS EXCEPT ![p] = [val |-> NilSet, err |-> errS[p]]]
    /\ pcS' = [pcS EXCEPT ![p] = "idle"]
    /\ fetched' = [fetched EXCEPT ![p] = NilSet]
    /\ UNCHANGED <<now, lastUpdateErr, cachedErrors, errReaders, opS, callsS,
                   needUpdate, errS, outcomeS, enumCount, myGen, timeGen,
                   cacheGen, group, groupFetches>>
    /\ UNCHANGED otherThanStore

NextStore ==
    \/ Tick
    \/ \E p \in Callers : GetRLock(p)
    \/ \E p \in Callers : GetCheck(p)
    \/ \E p \in Callers : GetLock(p)
    \/ \E p \in Callers : GetRecheckStale(p)
    \/ \E p \in Callers : GetRecheckFresh(p)
    \/ \E p \in Callers : UpdateLock(p)
    \/ \E p \in Callers : \E sigs \in DBSets : EnumOk(p, sigs)
    \/ \E p \in Callers : EnumErr(p)
    \/ \E p \in Callers : SetTime(p)
    \/ \E p \in Callers : SetCache(p)
    \/ \E p \in Callers : GetUnlock(p)
    \/ \E p \in Callers : GetReturn(p)
    \/ \E p \in Callers : UpdateReturn(p)


(* ========================= JsStorageCache ============================== *)
otherThanCache == <<streamVars, storeVars, recVars, scoreVars>>

\* the values the setter (the underlying fetch) may return
SetterValues == {"v1", "v2"}

\* every caller has invoked GetOrSet(key, setter); the key has no item
InitCache ==
    /\ storage = ""
    /\ working = 0
    /\ chClosed = {}
    /\ pcC = [p \in CacheCallers |-> "get_read"]
    /\ inRetry = [p \in CacheCallers |-> FALSE]
    /\ chC = [p \in CacheCallers |-> 0]
    /\ vC = [p \in CacheCallers |-> ""]
    /\ retC = [p \in CacheCallers |-> ""]
    /\ setterCalls = 0

\* Get: s.workMux.RLock(); ch := s.working[key]; s.workMux.RUnlock()
CacheGetRead(p) ==
    /\ pcC[p] = "get_read"
    /\ chC' = [chC EXCEPT ![p] = working]
    /\ pcC' = [pcC EXCEPT ![p] = IF working # 0 THEN "get_wait" ELSE "get_item"]
    /\ UNCHANGED <<storage, working, chClosed, inRetry, vC, retC, setterCalls>>
    /\ UNCHANGED otherThanCache

\* Get: if ch != nil { <-ch }
CacheGetWait(p) ==
    /\ pcC[p] = "get_wait"
    /\ chC[p] \in chClosed
    /\ pcC' = [pcC EXCEPT ![p] = "get_item"]
    /\ UNCHANGED <<storage, working, chClosed, inRetry, chC, vC, retC,
                   setterCalls>>
    /\ UNCHANGED otherThanCache

\* Get: item := getItem(prefix+key) ...; return; back in GetOrSet: v == "" ?
CacheGetItem(p) ==
    /\ pcC[p] = "get_item"
    /\ vC' = [vC EXCEPT ![p] = storage]
    /\ chC' = [chC EXCEPT ![p] = 0]
    /\ IF inRetry[p] \/ storage # ""
         THEN /\ pcC' = [pcC EXCEPT ![p] = "done"]
              /\ retC' = [retC EXCEPT ![p] = storage]
         ELSE /\ pcC' = [pcC EXCEPT ![p] = "lock"]
              /\ retC' = retC
    /\ UNCHANGED <<storage, working, chClosed, inRetry, setterCalls>>
    /\ UNCHANGED otherThanCache

\* GetOrSet: s.workMux.Lock(); ch := s.working[key]; ch != nil:
\* s.workMux.Unlock(); return s.Get(key)
CacheLockBusy(p) ==
    /\ pcC[p] = "lock"
    /\ working # 0
    /\ inRetry' = [inRetry EXCEPT ![p] = TRUE]
    /\ pcC' = [pcC EXCEPT ![p] = "get_read"]
    /\ UNCHANGED <<storage, working, chClosed, chC, vC, retC, setterCalls>>
    /\ UNCHANGED otherThanCache

\* GetOrSet: s.workMux.Lock(); s.working[key] == nil:
\* done := make(chan struct{}); s.working[key] = done; s.workMux.Unlock()
CacheLockFree(p) ==
    /\ pcC[p] = "lock"
    /\ working = 0
    /\ working' = p
    /\ pcC' = [pcC EXCEPT ![p] = "setter"]
    /\ UNCHANGED <<storage, chClosed, inRetry, chC, vC, retC, setterCalls>>
    /\ UNCHANGED otherThanCache

\* GetOrSet: v = setter()
CacheSetter(p, v) ==
    /\ pcC[p] = "setter"
    /\ vC' = [vC EXCEPT ![p] = v]
    /\ setterCalls' = setterCalls + 1
    /\ pcC' = [pcC EXCEPT ![p] = "set"]
    /\ UNCHANGED <<storage, working, chClosed, inRetry, chC, retC>>
    /\ UNCHANGED otherThanCache

\* GetOrSet: s.Set(key, v)
CacheSet(p) ==
    /\ pcC[p] = "set"
    /\ storage' = vC[p]
    /\ pcC' = [pcC EXCEPT ![p] = "close"]
    /\ UNCHANGED <<working, chClosed, inRetry, chC, vC, retC, setterCalls>>
    /\ UNCHANGED otherThanCache

\* GetOrSet: close(done)
CacheClose(p) ==
    /\ pcC[p] = "close"
    /\ chClosed' = chClosed \cup {p}
    /\ pcC' = [pcC EXCEPT ![p] = "delete"]
    /\ UNCHANGED <<storage, working, inRetry, chC, vC, retC, setterCalls>>
    /\ UNCHANGED otherThanCache

\* GetOrSet: s.workMux.Lock(); delete(s.working, key); s.workMux.Unlock(); return v
CacheDelete(p) ==
    /\ pcC[p] = "delete"
    /\ working' = 0
    /\ retC' = [retC EXCEPT ![p] = vC[p]]
    /\ pcC' = [pcC EXCEPT ![p] = "done"]
    /\ UNCHANGED <<storage, chClosed, inRetry, chC, vC, setterCalls>>
    /\ UNCHANGED otherThanCache

NextCache ==
    \/ \E p \in CacheCallers : CacheGetRead(p)
    \/ \E p \in CacheCallers : CacheGetWait(p)
    \/ \E p \in CacheCallers : CacheGetItem(p)
    \/ \E p \in CacheCallers : CacheLockBusy(p)
    \/ \E p \in CacheCallers : CacheLockFree(p)
    \/ \E p \in CacheCallers : \E v \in SetterValues : CacheSetter(p, v)
    \/ \E p \in CacheCallers : CacheSet(p)
    \/ \E p \in CacheCallers : CacheClose(p)
    \/ \E p \in CacheCallers : CacheDelete(p)

(* ============ logRecorder and Analyzer.recentMixinLogs ================= *)
otherThanRec == <<streamVars, storeVars, cacheVars, scoreVars>>

Sessions == 1..NumSessions
NL == "\n"
\* a text is a sequence of symbols: single characters, and the words
\* "mixin/", a tag body or a payload word standing for their characters
Bytes == {"a", "b", NL}
Chunks == UNION {[1..n -> Bytes] : n \in 0..MaxChunk}
NoWrite == [n |-> 0, err |-> Nil]

InitRec ==
    /\ recentMixinLogs = <<>>
    /\ recState = [s \in Sessions |-> "none"]
    /\ recBuf = [s \in Sessions |-> <<>>]
    /\ written = [s \in Sessions |-> <<>>]
    /\ observed = [s \in Sessions |-> <<>>]
    /\ writeRet = NoWrite
    /\ pushed = <<>>
    /\ obsCount = 0

\* the log lines of the model: what they look like, and, for the writer of
\* the line, whether it carries the tag and which payload
LineKinds == {"mixin", "mixinWords", "otherTag", "twoTags", "noPayload",
              "plain"}
TwoTagHead == <<"[", "12:00:00", "]", " ", "[", "main/INFO", "]", ":">>
MixinHead == <<"[", "12:00:00", "]", " ", "[", "main/INFO", "]", " ",
               "[", "mixin/", "PROCESSOR", "]", ":">>
LineText(kind, w) ==
    CASE kind = "mixin" -> MixinHead \o <<" ", w>>
      [] kind = "mixinWords" -> MixinHead \o <<" ", " ", w, " ", "applied">>
      [] kind = "otherTag" ->
            <<"[", "12:00:00", "]", " ", "[", "main/INFO", "]", " ",
              "[", "net.minecraft", "]", ":", " ", w>>
      [] kind = "twoTags" -> TwoTagHead \o <<" ", w>>
      [] kind = "noPayload" -> MixinHead
      [] OTHER -> <<w>>
LineCarriesTag(kind) == kind \in {"mixin", "mixinWords"}
LinePayload(kind, w) ==
    IF kind = "mixin" THEN <<w>> ELSE <<w, " ", "applied">>

\* \s of the regular expression
IsSpace(c) == c \in {" ", "\t", "\r", "\n", "\f"}

RECURSIVE SkipSpace(_, _)
\* \s* from position i: the position after the white space
SkipSpace(line, i) ==
    IF i <= Len(line) /\ IsSpace(line[i]) THEN SkipSpace(line, i + 1) ELSE i

RECURSIVE SkipTagBody(_, _)
\* [^\]]* from position i: the position of the first "]", Len + 1 if none
SkipTagBody(line, i) ==
    IF i <= Len(line) /\ line[i] # "]" THEN SkipTagBody(line, i + 1) ELSE i

\* \[[^\]]*\] at position i: the position after it, 0 if it does not match
Bracket(line, i) ==
    IF i >= 1 /\ i <= Len(line) /\ line[i] = "["
    THEN LET j == SkipTagBody(line, i + 1)
         IN  IF j <= Len(line) THEN j + 1 ELSE 0
    ELSE 0

\* \[mixin/[^\]]*\]: at position i: the position after it, 0 if no match
MixinBracket(line, i) ==
    IF i >= 1 /\ i + 1 <= Len(line) /\ line[i] = "[" /\ line[i + 1] = "mixin/"
    THEN LET j == SkipTagBody(line, i + 2)
         IN  IF j + 1 <= Len(line) /\ line[j + 1] = ":" THEN j + 2 ELSE 0
    ELSE 0

NoMatch == [matched |-> FALSE, group |-> <<>>]
\* mixinLogRe.FindSubmatch(buf): whether buf matches, and its group 1.
\* \s* is greedy and gives one character back when (.+) would be empty;
\* . does not match a newline
FindSubmatch(line) ==
    LET a == Bracket(line, 1)
        b == IF a = 0 THEN 0 ELSE Bracket(line, SkipSpace(line, a))
        c == IF b = 0 THEN 0 ELSE MixinBracket(line, SkipSpace(line, b))
        d == IF c = 0 THEN 0 ELSE SkipSpace(line, c)
        start == IF d <= Len(line) THEN d ELSE IF d > c THEN d - 1 ELSE 0
    IN  IF c = 0 \/ start = 0 \/ \E k \in start..Len(line) : line[k] = NL
        THEN NoMatch
        ELSE [matched |-> TRUE, group |-> SubSeq(line, start, Len(line))]

\* RingBuffer.Push: the oldest entry makes room once the ring is full
RingPush(ring, x) ==
    IF Len(ring) < RingCap THEN Append(ring, x) ELSE Append(Tail(ring), x)
\* RingBuffer.Clear
RingClear == <<>>

\* the whole line pushed instead of group 1, and whether it matches or not
RecordWholeLine(ring, buf) == RingPush(ring, buf)
\* logRecorder.record
Record(ring, buf) ==
    IF FindSubmatch(buf).matched
    THEN RingPush(ring, FindSubmatch(buf).group)
    ELSE ring

RECURSIVE RecordAll(_, _)
\* record() called on each line in turn
RecordAll(ring, lines) ==
    IF lines = <<>> THEN ring
    ELSE RecordAll(Record(ring, Head(lines)), Tail(lines))

RECURSIVE IndexByte(_, _)
\* bytes.IndexByte(r.buf[i:], '\n'), as the position in buf; 0 if none
IndexByte(buf, i) ==
    IF i > Len(buf) THEN 0
    ELSE IF buf[i] = NL THEN i ELSE IndexByte(buf, i + 1)

RECURSIVE WriteLines(_, _)
\* the loop of Write started at position i: the slices handed to record()
WriteLines(buf, i) ==
    LET j == IndexByte(buf, i)
    IN  IF j = 0 THEN <<>>
        ELSE <<SubSeq(buf, i, j - 1)>> \o WriteLines(buf, j + 1)

RECURSIVE WriteEnd(_, _)
\* the loop of Write started at position i: the value of i it ends with
WriteEnd(buf, i) ==
    LET j == IndexByte(buf, i)
    IN  IF j = 0 THEN i ELSE WriteEnd(buf, j + 1)

\* the consumed lines left in front of the buffer
WriteKeepAll(buf, i) == buf
\* n := copy(r.buf, r.buf[i:]); r.buf = r.buf[:n]
WriteKeep(buf, i) == SubSeq(buf, i, Len(buf))

\* a.newLogRecorder(), called by DoLogStream when session s starts
NewLogRecorder(s) ==
    /\ recState[s] # "open"
    /\ recentMixinLogs' = RingClear
    /\ recState' = [recState EXCEPT ![s] = "open"]
    /\ recBuf' = [recBuf EXCEPT ![s] = <<>>]
    /\ written' = [written EXCEPT ![s] = <<>>]
    /\ observed' = [observed EXCEPT ![s] = <<>>]
    /\ pushed' = <<>>
    /\ UNCHANGED <<writeRet, obsCount>>
    /\ UNCHANGED otherThanRec

\* logRecorder.Write(chunk) of session s, driven by the TeeReader
TeeWrite(s, chunk) ==
    /\ recState[s] # "none"
    /\ LET all == recBuf[s] \o chunk
           lines == WriteLines(all, 1)
       IN  /\ recentMixinLogs' = RecordAll(recentMixinLogs, lines)
           /\ recBuf' = [recBuf EXCEPT ![s] = WriteKeep(all, WriteEnd(all, 1))]
           /\ observed' = [observed EXCEPT ![s] = @ \o lines]
    /\ written' = [written EXCEPT ![s] = @ \o chunk]
    /\ writeRet' = [n |-> Len(chunk), err |-> Nil]
    /\ UNCHANGED <<recState, pushed, obsCount>>
    /\ UNCHANGED otherThanRec

\* logRecorder.Close()
RecClose(s) ==
    /\ recState[s] = "open"
    /\ recState' = [recState EXCEPT ![s] = "closed"]
    /\ recBuf' = [recBuf EXCEPT ![s] = <<>>]
    /\ UNCHANGED <<recentMixinLogs, written, observed, writeRet, pushed,
                   obsCount>>
    /\ UNCHANGED otherThanRec

\* the payload word of the next tagged line
NextWord == ToString(Len(pushed) + 1)
\* the kinds the next line may have: tagged lines alternate their shape
NextKinds ==
    (LineKinds \ {"mixin", "mixinWords"})
        \cup {IF Len(pushed) % 2 = 0 THEN "mixin" ELSE "mixinWords"}

\* r.record(line), for a line of the given kind
RecordLine(kind) ==
    /\ recState[1] = "open"
    /\ obsCount < MaxObserve
    /\ kind \in NextKinds
    /\ recentMixinLogs' = Record(recentMixinLogs, LineText(kind, NextWord))
    /\ pushed' = IF LineCarriesTag(kind)
                 THEN Append(pushed, LinePayload(kind, NextWord))
                 ELSE pushed
    /\ obsCount' = obsCount + 1
    /\ UNCHANGED <<recState, recBuf, written, observed, writeRet>>
    /\ UNCHANGED otherThanRec

\* the line session s writes, newline included
SessLine(s) == LineText("mixin", ToString(s)) \o <<NL>>

NextRing ==
    \/ NewLogRecorder(1)
    \/ \E kind \in LineKinds : RecordLine(kind)
    \/ RecClose(1)

NextTee ==
    \/ NewLogRecorder(1)
    \/ \E chunk \in Chunks :
          /\ Len(written[1]) + Len(chunk) <= MaxStream
          /\ TeeWrite(1, chunk)
    \/ RecClose(1)

NextSessions ==
    \/ \E s \in Sessions : NewLogRecorder(s)
    \/ \E s \in Sessions :
          /\ recState[s] = "open"
          /\ Len(observed[s]) < MaxSessLines
          /\ TeeWrite(s, SessLine(s))
    \/ \E s \in Sessions : RecClose(s)

(* ========================= Analyzer.DoError ============================ *)
otherThanScore == <<streamVars, cacheVars, recVars>>

\* a float32 score x is the integer x * Unit
Unit == 1000

\* class names and error keys are sequences of segments and separators;
\* they are listed by their parts: the text before the last separator, if
\* there is a separator, and the final segment
ClassParts ==
    {[hasPkg |-> TRUE, pkg |-> <<"com", ".", "example">>, cls |-> <<"Foo">>],
     [hasPkg |-> TRUE, pkg |-> <<"org">>, cls |-> <<"Foo">>],
     [hasPkg |-> FALSE, pkg |-> <<>>, cls |-> <<"Foo">>],
     [hasPkg |-> TRUE, pkg |-> <<"com", ".", "example">>, cls |-> <<"Bar">>]}
KeyParts ==
    <<[hasPkg |-> TRUE, pkg |-> <<"com", ".", "example">>, cls |-> <<"Foo">>],
      [hasPkg |-> TRUE, pkg |-> <<"com", ".", "example">>, cls |-> <<"*">>],
      [hasPkg |-> TRUE, pkg |-> <<"*">>, cls |-> <<"Foo">>],
      [hasPkg |-> TRUE, pkg |-> <<"org">>, cls |-> <<"Foo">>],
      [hasPkg |-> TRUE, pkg |-> <<"com", ".", "example">>, cls |-> <<>>],
      [hasPkg |-> FALSE, pkg |-> <<>>, cls |-> <<"*">>]>>
\* the text of a name given by its parts
NameText(p) == IF p.hasPkg THEN p.pkg \o <<".">> \o p.cls ELSE p.cls
\* jerr.Class of the errors scored
Classes == {NameText(p) : p \in ClassParts}
\* ErrorDesc.Message: no template, or a template of one line
Templates == {<<>>, <<"Could not load class">>}
\* the ErrorDesc values of the repository
Descs ==
    {[Error |-> NameText(KeyParts[i]), Message |-> m] :
        i \in DOMAIN KeyParts, m \in Templates}
\* the signature sets DB.ForEachErrors may enumerate
ScoreDBSets == UNION {[1..n -> Descs] : n \in 0..MaxSigs}
\* what lineMatchPercent may return
Overlaps == {0, 800, Unit}
\* what HardCodedChecks may return: nil, or its own ErrorDesc
NilDesc == [isNil |-> TRUE, desc |-> [Error |-> <<>>, Message |-> <<>>]]
HardDesc ==
    [isNil |-> FALSE,
     desc |-> [Error |-> <<"java", ".", "lang", ".", "OutOfMemoryError">>,
               Message |-> <<>>]]
HardResults == {NilDesc, HardDesc}

InitScore ==
    /\ scCalled = FALSE
    /\ scJerr = <<>>
    /\ scHard = NilDesc
    /\ scOv = 0
    /\ scMatched = [isNil |-> TRUE, list |-> <<>>]

\* the positions of the separators of a name
DotPositions(text) == {k \in 1..Len(text) : text[k] = "."}
\* rsplit(text, '.'): the parts around the last separator; a text without
\* a separator is all final segment
Rsplit(text) ==
    IF DotPositions(text) = {}
    THEN [left |-> <<>>, right |-> text]
    ELSE LET i == CHOOSE k \in DotPositions(text) :
                      \A j \in DotPositions(text) : j <= k
         IN  [left |-> SubSeq(text, 1, i - 1),
              right |-> SubSeq(text, i + 1, Len(text))]

\* the wildcard final segment taken for a class name
IgnoreErrorTypEmptyOnly(ecls2) == Len(ecls2) = 0
\* ignoreErrorTyp := len(ecls2) == 0 || ecls2 == "*"
IgnoreErrorTyp(ecls2) == Len(ecls2) = 0 \/ ecls2 = <<"*">>

\* the wildcard package taken for a package name
PkgWeightNoWildcard(epkg, epkg2) ==
    IF epkg = epkg2 THEN Unit \div 10 ELSE Unit \div 20
\* if epkg2 == "*" || epkg == epkg2 { 0.1 } else { 0.05 }
PkgWeight(epkg, epkg2) ==
    IF epkg2 = <<"*">> \/ epkg = epkg2 THEN Unit \div 10 ELSE Unit \div 20

\* sol.Match after the type check
TypeScore(epkg, ecls, epkg2, ecls2) ==
    IF ~IgnoreErrorTyp(ecls2) /\ ecls2 = ecls
    THEN PkgWeight(epkg, epkg2)
    ELSE 0

\* sol.Match /= 10.0 / 100
NoTemplate(t) == (t * 100) \div 10

\* the message weighted at 90% whether the type is ignored or not
WithTemplateAlwaysWeighted(t, matches, ignore) ==
    t + (matches * 9) \div 10
\* if ignoreErrorTyp { sol.Match = matches } else { sol.Match += matches * 0.9 }
WithTemplate(t, matches, ignore) ==
    IF ignore THEN matches ELSE t + (matches * 9) \div 10

\* sol.Match of one pass of the loop of DoError
Match(class, e, ov) ==
    LET c == Rsplit(class)
        k == Rsplit(e.Error)
        t == TypeScore(c.left, c.right, k.left, k.right)
    IN  IF Len(e.Message) = 0
        THEN NoTemplate(t)
        ELSE WithTemplate(t, ov, IgnoreErrorTyp(k.right))

RECURSIVE Candidates(_, _, _)
\* the loop of DoError: matched after the passes over sigs
Candidates(sigs, class, ov) ==
    IF sigs = <<>> THEN <<>>
    ELSE LET sol == [ErrorDesc |-> Head(sigs),
                     Match |-> Match(class, Head(sigs), ov)]
         IN  (IF sol.Match # 0 THEN <<sol>> ELSE <<>>)
                 \o Candidates(Tail(sigs), class, ov)

\* a matched that was never appended to stays nil
ReturnedAsIs(list) == [isNil |-> list = <<>>, list |-> list]
\* if matched == nil { matched = make([]SolutionPossibility, 0) }
Returned(list) == [isNil |-> FALSE, list |-> list]

\* the result of HardCodedChecks not looked at
HardCodedIgnored(hard) == FALSE
\* e, _ := a.HardCodedChecks(jerr); if e != nil
HardCoded(hard) == ~hard.isNil

\* DoError for the error of class jerr.Class, with what its collaborators
\* return: HardCodedChecks, lineMatchPercent and, through getErrors called
\* by this goroutine alone, DB.ForEachErrors
DoError(class, hard, ov) ==
    /\ scCalled' = TRUE
    /\ scJerr' = class
    /\ scHard' = hard
    /\ IF HardCoded(hard)
       THEN /\ scOv' = 0
            /\ scMatched' =
                  Returned(<<[ErrorDesc |-> hard.desc, Match |-> Unit]>>)
            /\ UNCHANGED <<lastUpdateErr, cachedErrors, enumCount>>
       ELSE /\ IF NeedUpdate(lastUpdateErr, now)
                    /\ Recheck(lastUpdateErr, now)
               THEN /\ enumCount < MaxCalls
                    /\ enumCount' = enumCount + 1
                    /\ \/ \E sigs \in ScoreDBSets :
                            /\ lastUpdateErr' = now
                            /\ cachedErrors' = Loaded(sigs)
                       \/ UNCHANGED <<lastUpdateErr, cachedErrors>>
               ELSE UNCHANGED <<lastUpdateErr, cachedErrors, enumCount>>
            /\ scOv' = ov
            /\ scMatched' =
                  Returned(Candidates(cachedErrors'.sigs, class, ov))
    /\ UNCHANGED <<now, errWriter, errReaders, pcS, opS, callsS, needUpdate,
                   fetched, errS, outcomeS, retS, myGen, timeGen, cacheGen,
                   group, groupFetches>>
    /\ UNCHANGED otherThanScore

NextScore ==
    \E class \in Classes, hard \in HardResults, ov \in Overlaps :
        DoError(class, hard, ov)

vars == <<streamVars, storeVars, cacheVars, recVars, scoreVars>>

Init == InitStream /\ InitStore /\ InitCache /\ InitRec /\ InitScore

Next ==
    \/ \E n \in 1..MaxResults : TokEmit(n)
    \/ TokEnd
    \/ TokFail
    \/ MainSpawn
    \/ MainBreak
    \/ MainErrCh
    \/ MainCtxDone
    \/ MainWait
    \/ MainClose
    \/ \E t \in Tasks : TaskSend(t)
    \/ \E t \in Tasks : TaskSendClosed(t)
    \/ \E t \in Tasks : TaskCtxDone(t)
    \/ ConsumerRecv
    \/ CallerCancel

Spec == Init /\ [][Next]_vars

\* the goroutines are scheduled fairly and the consumer keeps receiving
FairSpec ==
    /\ Spec
    /\ WF_vars(MainStep)
    /\ \A t \in Tasks : WF_vars(TaskStep(t))
    /\ WF_vars(ConsumerRecv)

\* the cached signature set under concurrent getErrors / UpdateErrors calls
SpecStore == Init /\ [][NextStore]_vars

\* concurrent GetOrSet calls for one missing key
SpecCache == Init /\ [][NextCache]_vars

\* one recorder after another on one Analyzer, fed line by line
SpecRing == Init /\ [][NextRing]_vars

\* one recorder fed a byte stream in arbitrary pieces
SpecTee == Init /\ [][NextTee]_vars

\* analyze sessions on one Analyzer with overlapping lifetimes
SpecSessions == Init /\ [][NextSessions]_vars

\* DoError calls of one goroutine, one after the other
SpecScore == Init /\ [][NextScore]_vars

(* ======================= claims on the pipeline ======================== *)
\* the results of top-level error k within a log of results, in order
ChainOf(log, k) == SelectSeq(log, LAMBDA e : e[1] = k)

\* the results of chain k in log are its first elements, outermost first
ChainPrefix(log, k) ==
    /\ Len(ChainOf(log, k)) <= tokChain[k]
    /\ \A i \in 1..Len(ChainOf(log, k)) : ChainOf(log, k)[i] = <<k, i>>

\* log holds exactly one result per error of every delivered cause chain
CompleteStream(log) ==
    /\ Len(log) = Len(sent)
    /\ \A k \in 1..Len(tokChain) :
          /\ ChainPrefix(log, k)
          /\ Len(ChainOf(log, k)) = tokChain[k]

AllTasksReturned == \A t \in 1..spawned : taskPc[t] = "done"

\* the consumer has drained the channel and sees it closed
ClosedSeen == resultClosed /\ result = <<>>

\* C1: the result channel is closed exactly once, only after every spawned
\* scoring task has returned, and no task ever sends on the closed channel
\* (no send-on-closed-channel panic).
C1_ClosedAfterTasks ==
    /\ closeCount <= 1
    /\ resultClosed => AllTasksReturned
    /\ ~panicked

\* C3: once the caller's context is cancelled, no scoring task places a
\* further result on the result channel.
C3_NoSendAfterCancel == [][callerCancelled => sent' = sent]_vars

C5_ChainInOrder ==
    /\ \A k \in 1..spawned : ChainPrefix(sent, k) /\ ChainPrefix(received, k)
    /\ resultClosed /\ ctxCause = Nil =>
          \A k \in 1..spawned :
              ChainOf(sent, k) = [i \in 1..tokChain[k] |-> <<k, i>>]

C5_Witness ==
    /\ resultClosed
    /\ ctxCause = Nil
    /\ spawned >= 2
    /\ tokChain[1] = 2
    /\ Len(sent) >= 3
    /\ sent[1] = <<1, 1>>
    /\ sent[2] = <<2, 1>>
    /\ sent[3] = <<1, 2>>

\* C6: a consumer that sees the channel closed with a nil cause has received
\* a complete stream; one that sees it closed with fewer results finds a
\* non-nil cause and holds, per cause chain, a prefix of the chain's results.
C6_CompleteOrCause ==
    /\ sent = received \o result
    /\ ClosedSeen /\ ctxCause = Nil => CompleteStream(received)
    /\ ClosedSeen /\ ~CompleteStream(received) =>
          /\ ctxCause # Nil
          /\ \A k \in 1..Len(tokChain) : ChainPrefix(received, k)

C6_Witness ==
    /\ ClosedSeen
    /\ ctxCause # Nil
    /\ ~CompleteStream(received)
    /\ received # <<>>
    /\ \E k \in 1..spawned : Len(ChainOf(received, k)) < tokChain[k]

\* C7: once the tokenizer has delivered its nil sentinel, fair scheduling
\* and a receiving consumer lead to the result channel being closed, and a
\* close on the sentinel path happens only after all tasks have finished.
C7_SentinelLeadsToClose ==
    /\ (tokState = "ended") ~> resultClosed
    /\ [](resultClosed /\ exitVia = "sentinel" => AllTasksReturned)

C7_Witness ==
    /\ resultClosed
    /\ exitVia = "sentinel"
    /\ spawned >= 2
    /\ AllTasksReturned
    /\ Len(sent) > ResultCap

(* ================= claims on the cached signature set ================== *)
NotYetLoaded == "NotYetLoaded"

\* the callers inside updateErrorsLocked
Refreshing == {p \in Callers : pcS[p] \in {"enum", "setTime", "setCache"}}

\* C2 (as claimed): the getErrors callers that wait on a stale cache together
\* invoke ForEachErrors at most once in total, whatever the fetch returns.
C2_OneEnumerationPerGroup == groupFetches <= 1

\* C2 (amended): at most one caller is in the enumeration at a time, and a
\* getErrors caller invokes ForEachErrors only if, under the exclusive lock,
\* still no refresh has succeeded or the last success is more than an hour
\* old; so a group fetches again only after a failed or an expired fetch.
C2_EnumerateOnlyWhenStale ==
    /\ [](Cardinality(Refreshing) <= 1)
    /\ [][\A p \in Callers :
            (pcS[p] = "g_recheck" /\ pcS'[p] = "enum")
                => (lastUpdateErr = 0 \/ now > lastUpdateErr + Hour)]_vars

C2_Witness ==
    \E p \in Callers : \E q \in Callers :
        /\ p # q
        /\ p \in group
        /\ groupFetches = 1
        /\ opS[q] = "get"
        /\ outcomeS[q] = "ok"
        /\ myGen[q] = enumCount
        /\ pcS[p] = "g_unlock"
        /\ outcomeS[p] = "none"

\* C8: a failed enumeration leaves the cached set and the timestamp as they
\* were and UpdateErrors returns the error; the two change only in a refresh
\* whose enumeration succeeded, which then sets both.
C8_FailedRefreshKeepsCache ==
    /\ [](errWriter = 0 => timeGen = cacheGen)
    /\ [](\A p \in Callers :
            pcS[p] = "idle" /\ opS[p] = "update"
                => (retS[p].err = FetchErr <=> outcomeS[p] = "fail")
                   /\ (retS[p].err = Nil <=> outcomeS[p] = "ok"))
    /\ [][(cachedErrors' # cachedErrors \/ lastUpdateErr' # lastUpdateErr
              \/ timeGen' # timeGen \/ cacheGen' # cacheGen)
            => \E p \in Callers : errWriter = p /\ outcomeS[p] = "ok"]_vars
    /\ [][\A p \in Callers :
            (errWriter = p /\ outcomeS'[p] = "fail")
                => /\ cachedErrors' = cachedErrors
                   /\ lastUpdateErr' = lastUpdateErr]_vars

C8_Witness ==
    \E p \in Callers :
        /\ pcS[p] = "idle"
        /\ opS[p] = "update"
        /\ outcomeS[p] = "fail"
        /\ retS[p].err = FetchErr
        /\ lastUpdateErr # 0
        /\ cachedErrors = Loaded(<<"sigA">>)

\* C9: a getErrors call that has no loaded set to return (none has ever
\* succeeded and its own refresh failed) reports NotYetLoaded; a nil set is
\* never returned as a successful result.
C9_NilSetReportsNotYetLoaded ==
    \A p \in Callers :
        pcS[p] = "idle" /\ opS[p] = "get" /\ retS[p].val.isNil
            => retS[p].err = NotYetLoaded

(* ==================== claims on the persistent cache =================== *)
\* C10: concurrent GetOrSet calls for the same missing key invoke the setter
\* at most once in total, and every caller returns the value that fetch
\* stored.
C10_SingleFetch ==
    /\ setterCalls <= 1
    /\ \A p \in CacheCallers : pcC[p] = "done" => retC[p] = storage

(* ================ claims on the recorder and the ring =================== *)
\* the last n elements of a sequence, all of them if it has fewer
LastN(seq, n) ==
    IF Len(seq) <= n THEN seq ELSE SubSeq(seq, Len(seq) - n + 1, Len(seq))

\* C11: after newLogRecorder() and any sequence of record() calls, of which
\* n carried a tagged line, recentMixinLogs holds exactly the payloads of
\* the last min(n, 64) tagged lines in the order they came; lines without
\* the tag leave it as it is, and newLogRecorder() leaves it empty.
C11_RingHoldsLastPayloads == recentMixinLogs = LastN(pushed, RingCap)

\* 70 tagged lines recorded: the ring holds the 7th to the 70th
C11_Witness ==
    /\ Len(pushed) = 70
    /\ obsCount = 70
    /\ Len(recentMixinLogs) = RingCap
    /\ recentMixinLogs[1] = <<"7">>
    /\ recentMixinLogs[RingCap] = <<"70", " ", "applied">>

\* the positions of the newlines of a byte stream
NLPositions(s) == {k \in 1..Len(s) : s[k] = NL}
\* the position of its i-th newline; 0 for i = 0
NthNL(s, i) ==
    IF i = 0 THEN 0
    ELSE CHOOSE k \in NLPositions(s) :
             Cardinality({j \in NLPositions(s) : j <= k}) = i
\* its newline-terminated lines in order, without their newlines
TerminatedLines(s) ==
    [i \in 1..Cardinality(NLPositions(s)) |->
        SubSeq(s, NthNL(s, i - 1) + 1, NthNL(s, i) - 1)]
\* the bytes after its last newline
Unterminated(s) ==
    SubSeq(s, NthNL(s, Cardinality(NLPositions(s))) + 1, Len(s))

\* C20: the lines handed to record() depend only on the concatenation of
\* the bytes written, not on how the Writes cut it: after any sequence of
\* Writes they are exactly its newline-terminated lines in order, r.buf
\* holds exactly the bytes after the last newline (and no newline), each
\* Write returns the length of its argument and a nil error, and Close
\* does not hand the unterminated last line to record().
C20_LinesOfTheConcatenation ==
    /\ [](recState[1] = "open" =>
            /\ observed[1] = TerminatedLines(written[1])
            /\ recBuf[1] = Unterminated(written[1])
            /\ \A k \in 1..Len(recBuf[1]) : recBuf[1][k] # NL)
    /\ [][/\ (recState[1] = "open" /\ recState'[1] = "open"
                /\ (written' # written \/ writeRet' # writeRet))
             => /\ writeRet'.n = Len(written'[1]) - Len(written[1])
                /\ writeRet'.err = Nil
          /\ (recState[1] = "open" /\ recState'[1] = "closed")
             => observed' = observed]_vars

\* the line "ab" arrived in two Writes, the second one ending it
C20_Witness ==
    /\ recState[1] = "open"
    /\ written[1] = <<"a", "b", NL>>
    /\ writeRet.n = 2
    /\ observed[1] = <<<<"a", "b">>>>
    /\ recBuf[1] = <<>>

\* the sessions that have lines in the ring, and how many lines one has
OwnersIn(ring) ==
    {s \in Sessions : \E k \in DOMAIN ring : ring[k] = <<ToString(s)>>}
CountOf(ring, s) ==
    Cardinality({k \in DOMAIN ring : ring[k] = <<ToString(s)>>})

\* C19: recentMixinLogs is cleared and appended to by the recorder of one
\* session at a time: with two sessions of overlapping lifetimes on one
\* Analyzer the ring never holds the lines of both, and the lines retained
\* for a running session are not cleared by another session starting.
C19_OneSessionAtATime ==
    /\ [](Cardinality(OwnersIn(recentMixinLogs)) <= 1)
    /\ [][\A s \in Sessions :
            (recState[s] = "open" /\ recState'[s] = "open")
            => CountOf(recentMixinLogs', s) >= CountOf(recentMixinLogs, s)]_vars

(* ======================= claims on DoError ============================= *)
\* the text before the last separator of a name given by its parts
PkgOf(p) == IF p.hasPkg THEN p.pkg ELSE <<>>
\* the last call ran the generic algorithm
ScoredGenerically == scCalled /\ scHard.isNil
\* the signature at position i of the set scored by the last call is
\* returned as a candidate with score x, or, for x = 0, is not returned
ScoredAs(i, x) ==
    LET e == cachedErrors.sigs[i]
        hits == {j \in DOMAIN scMatched.list : scMatched.list[j].ErrorDesc = e}
    IN  IF x = 0 THEN hits = {}
        ELSE hits # {} /\ \A j \in hits : scMatched.list[j].Match = x

ComExampleFoo == <<"com", ".", "example", ".", "Foo">>
ScenarioDesc ==
    [Error |-> <<"com", ".", "example", ".", "*">>,
     Message |-> <<"Could not load class">>]
\* the end-to-end scenario, with the score x expected of it
ScenarioScores(x) ==
    (ScoredGenerically /\ scJerr = ComExampleFoo /\ scOv = 800)
    => \A i \in DOMAIN cachedErrors.sigs :
          cachedErrors.sigs[i] = ScenarioDesc => ScoredAs(i, x)

\* C12: the error of class com.example.Foo scored against the signature
\* with key com.example.* and a one-line template, lineMatchPercent
\* returning 0.8, gets the score 0.10 + 0.8 * 0.90 = 0.82.
C12_ScenarioScores082 == ScenarioScores(820)

\* C12, amended: the key's final segment is the wildcard, so the type is
\* ignored and the score is the overlap, 0.8.
C12_ScenarioScoresOverlap == ScenarioScores(800)

C12_Witness ==
    /\ ScoredGenerically
    /\ scJerr = ComExampleFoo
    /\ scOv = 800
    /\ cachedErrors.sigs = <<ScenarioDesc>>
    /\ scMatched.list = <<[ErrorDesc |-> ScenarioDesc, Match |-> 800]>>

\* the parts of the signatures and of the class that the claims speak of
KeysOf(e) == {k \in DOMAIN KeyParts : NameText(KeyParts[k]) = e.Error}
ClassesOf(class) == {c \in ClassParts : NameText(c) = class}
Concrete(seg) == seg # <<>> /\ seg # <<"*">>
\* 0.10 for equal packages or a wildcard package, 0.05 otherwise
TypePart(k, c) ==
    IF PkgOf(k) = PkgOf(c) \/ PkgOf(k) = <<"*">> THEN 100 ELSE 50

\* C13: a signature without a message template whose final segment is
\* concrete and equal to the error's gets the score 1.0 when the package
\* prefixes are equal or the signature's is the wildcard, and 0.5 when the
\* signature's prefix is concrete and different.
C13_NoTemplateScores ==
    ScoredGenerically =>
        \A i \in DOMAIN cachedErrors.sigs :
        \A k \in KeysOf(cachedErrors.sigs[i]), c \in ClassesOf(scJerr) :
            (/\ cachedErrors.sigs[i].Message = <<>>
             /\ Concrete(KeyParts[k].cls)
             /\ KeyParts[k].cls = c.cls)
            => ScoredAs(i, IF PkgOf(KeyParts[k]) = PkgOf(c) THEN Unit
                           ELSE IF PkgOf(KeyParts[k]) = <<"*">> THEN Unit
                           ELSE Unit \div 2)

\* org.Foo scored against com.example.Foo, *.Foo and org.Foo without templates
C13_Witness ==
    /\ ScoredGenerically
    /\ scJerr = <<"org", ".", "Foo">>
    /\ \E a, b \in DOMAIN scMatched.list :
          /\ scMatched.list[a] =
                [ErrorDesc |-> [Error |-> <<"*", ".", "Foo">>,
                                Message |-> <<>>],
                 Match |-> Unit]
          /\ scMatched.list[b] =
                [ErrorDesc |-> [Error |-> ComExampleFoo, Message |-> <<>>],
                 Match |-> Unit \div 2]

\* C14: for a signature with a message template, the score is the overlap
\* itself when the signature's final segment is empty or the wildcard; when
\* it is concrete and equal to the error's, the score is 0.10 (packages
\* equal or wildcard) or 0.05 (otherwise) plus 0.90 times the overlap, not
\* clamped, and within [0,1].
C14_TemplateScores ==
    ScoredGenerically =>
        \A i \in DOMAIN cachedErrors.sigs :
        \A k \in KeysOf(cachedErrors.sigs[i]), c \in ClassesOf(scJerr) :
            cachedErrors.sigs[i].Message # <<>>
            => /\ ~Concrete(KeyParts[k].cls) => ScoredAs(i, scOv)
               /\ (Concrete(KeyParts[k].cls) /\ KeyParts[k].cls = c.cls)
                  => /\ ScoredAs(i, TypePart(KeyParts[k], c)
                                        + (scOv * 90) \div 100)
                     /\ TypePart(KeyParts[k], c) + (scOv * 90) \div 100
                            \in 0..Unit

\* com.example.Foo with overlap 1.0 against com.example.Foo (1.0) and the
\* key with an empty final segment (the overlap), both with the template
C14_Witness ==
    /\ ScoredGenerically
    /\ scJerr = ComExampleFoo
    /\ scOv = Unit
    /\ scMatched.list =
          <<[ErrorDesc |-> [Error |-> ComExampleFoo,
                            Message |-> <<"Could not load class">>],
             Match |-> Unit],
            [ErrorDesc |-> [Error |-> <<"com", ".", "example", ".">>,
                            Message |-> <<"Could not load class">>],
             Match |-> Unit]>>

\* the signatures of sigs whose score for the last call is not 0, in order
NonZero(sigs) ==
    SelectSeq(sigs, LAMBDA e : Match(scJerr, e, scOv) # 0)

\* C15: for every error and every cached set, empty or never loaded
\* included, the list DoError returns has no candidate of score 0, has
\* every signature of non-zero score exactly once and in the order of the
\* set, and is not nil.
C15_CandidatesAreTheNonZeroScores ==
    ScoredGenerically =>
        /\ ~scMatched.isNil
        /\ \A j \in DOMAIN scMatched.list : scMatched.list[j].Match # 0
        /\ [j \in DOMAIN scMatched.list |-> scMatched.list[j].ErrorDesc]
              = NonZero(cachedErrors.sigs)

\* of two signatures the first scored 0 and only the second is returned
C15_Witness ==
    /\ ScoredGenerically
    /\ Len(cachedErrors.sigs) = 2
    /\ Match(scJerr, cachedErrors.sigs[1], scOv) = 0
    /\ Len(scMatched.list) = 1
    /\ scMatched.list[1].ErrorDesc = cachedErrors.sigs[2]

\* C16: when HardCodedChecks returns a signature, DoError returns exactly
\* one candidate, that signature with score 1.0, and does not call
\* getErrors: DB.ForEachErrors is not invoked and a.cachedErrors and
\* a.lastUpdateErr stay as they are.
C16_HardCodedBypassesStore ==
    [][(scCalled' /\ ~scHard'.isNil)
       => /\ scMatched' =
                [isNil |-> FALSE,
                 list |-> <<[ErrorDesc |-> scHard'.desc, Match |-> Unit]>>]
          /\ UNCHANGED <<cachedErrors, lastUpdateErr, enumCount>>]_vars

\* a hardcoded result returned while no set has ever been loaded
C16_Witness ==
    /\ scCalled
    /\ ~scHard.isNil
    /\ Len(scMatched.list) = 1
    /\ lastUpdateErr = 0
    /\ cachedErrors.isNil
    /\ enumCount = 0

(* ============ claims on the locking of the cached set ================== *)
\* goroutine p holds a.errMux, shared or exclusive
HoldsLock(p) == p \in errReaders \/ errWriter = p

\* C17: every access to a.cachedErrors is made while holding a.errMux,
\* shared for the read of getErrors and exclusive for the write of a
\* refresh, so the read of getErrors is never concurrent with that write.
C17_CachedSetUnderLock ==
    \A p \in Callers :
        /\ pcS[p] = "setCache" => errWriter = p
        /\ pcS[p] = "g_ret" => HoldsLock(p)
        /\ pcS[p] = "g_ret" => \A q \in Callers : pcS[q] # "setCache"

\* no refresh has succeeded, or the last one is more than an hour ago
Stale == lastUpdateErr = 0 \/ now > lastUpdateErr + Hour

\* C18: getErrors invokes the refresh exactly when, at its check, no
\* refresh has ever succeeded or the last success is strictly more than
\* one hour before the current time; a call that finds the cache within
\* the hour does not invoke the repository and returns a.cachedErrors as
\* it is.
C18_RefreshExactlyWhenStale ==
    /\ [](\A p \in Callers :
            (pcS[p] = "g_ret" /\ ~needUpdate[p])
            => outcomeS[p] = "none" /\ errWriter # p)
    /\ [][\A p \in Callers :
            /\ (pcS[p] = "g_check" /\ pcS'[p] # "g_check")
               => /\ needUpdate'[p] = Stale
                  /\ pcS'[p] = IF Stale THEN "g_lock" ELSE "g_ret"
                  /\ UNCHANGED <<enumCount, lastUpdateErr, cachedErrors>>
            /\ (pcS[p] = "g_recheck" /\ pcS'[p] # "g_recheck")
               => /\ pcS'[p] = IF Stale THEN "enum" ELSE "g_unlock"
                  /\ enumCount' = IF Stale THEN enumCount + 1 ELSE enumCount
            /\ (opS'[p] = "get" /\ pcS[p] # "enum" /\ pcS'[p] = "enum")
               => pcS[p] = "g_recheck"
            /\ (pcS[p] = "g_ret" /\ pcS'[p] = "idle")
               => /\ retS'[p] = [val |-> cachedErrors, err |-> Nil]
                  /\ UNCHANGED <<enumCount, lastUpdateErr, cachedErrors>>
         ]_vars

\* a call that found the set exactly one hour old is about to return it
C18_Witness ==
    \E p \in Callers :
        /\ pcS[p] = "g_ret"
        /\ ~needUpdate[p]
        /\ lastUpdateErr # 0
        /\ now = lastUpdateErr + Hour
        /\ ~cachedErrors.isNil
====
